---- MODULE Spec2Model ----
(***************************************************************************)
(* Model of the worker bootstrap script (scripts/start_worker.py) and of   *)
(* the model logger (rafiki/model/log.py).                                 *)
(*                                                                         *)
(* Spec / FairSpec : the bootstrap script: the install retry loop, then    *)
(*                   start_worker (main context) interleaved with          *)
(*                   stop_worker (a second context).                       *)
(* SpecParse       : ModelLogger.parse_logs applied to a list of lines.    *)
(* SpecLog         : calls of log, define_plot and set_logger on the       *)
(*                   module's ModelLogger.                                 *)
(***************************************************************************)
EXTENDS Integers, Sequences, FiniteSets, TLC

(***************************************************************************)
(* Bounds of the model and constants of the program.                       *)
(***************************************************************************)
\* Calls of start_worker the caller of the callbacks makes in one run.
MaxStarts == 2
\* Calls of stop_worker the second context makes in one run.
MaxStops == 2

\* range(10) of the install loop.
MaxAttempts == 10
\* time.sleep(3).
SleepUnits == 3

\* The value of the global `worker` before any worker is constructed.
None == 0

\* What os.system can return: 0, or a non-zero wait status.
ExitCodes == {0, 256}

\* Service types a caller can pass: the three of ServiceType and one that is
\* none of them.
ServiceTypes == {"TRAIN", "INFERENCE", "ADVISOR", "BOGUS"}

\* No exception raised.
NoError == <<>>

VARIABLES
    pc,           \* position of the main context
    i,            \* the loop variable of the install loop
    attempts,     \* exit codes of the install attempts made so far
    slept,        \* time-units slept so far
    worker,       \* the global `worker`: None or the index of a constructed worker
    workers,      \* every worker constructed so far, in order of construction
    svc_type,     \* service_type of the start_worker call in progress
    error,        \* the exception the last start_worker call raised, or NoError
    spc,          \* position of the second context inside stop_worker
    stop_error,   \* the exception the last stop_worker call raised, or NoError
    start_calls,  \* calls of start_worker made so far
    stop_calls,   \* calls of stop_worker made so far
    stop_during   \* a stop_worker call was made after the start_worker call in
                  \* progress was entered

supVars == <<pc, i, attempts, slept, worker, workers, svc_type, error, spc,
             stop_error, start_calls, stop_calls, stop_during>>

VARIABLES
    log_lines,    \* the argument of the parse_logs call
    idx,          \* position of parse_logs' for loop in log_lines (1-based)
    messages,     \* parse_logs' local `messages`
    metrics,      \* parse_logs' local `metrics`
    plots,        \* parse_logs' local `plots`
    pl_pc,        \* position of the parse_logs call
    pl_error,     \* the exception parse_logs raised, or NoError
    msg_src,      \* for each record of `messages`, the index of its line
    met_src,      \* for each record of `metrics`, the index of its line
    plot_src      \* for each record of `plots`, the index of its line

parseVars == <<log_lines, idx, messages, metrics, plots, pl_pc, pl_error,
               msg_src, met_src, plot_src>>

VARIABLES
    logger,       \* ModelLogger._logger: the logger the lines go to
    delivered,    \* for each logger, the lines handed to its info(), in order
    emitted,      \* every _log call so far: its arguments, its line, its logger
    calls,        \* calls of log, log_loss and define_plot made so far
    last_call,    \* the last of these calls: its name, its arguments and the
                  \* number of _log calls made before it
    handled,      \* every record ModelLoggerDebugHandler.emit was given: its
                  \* line and the error emit raised, if any
    stdout        \* what _print has printed, one entry for each call

logVars == <<logger, delivered, emitted, calls, last_call, handled, stdout>>

vars == <<supVars, parseVars, logVars>>

(***************************************************************************)
(* Python values, as json.loads returns them and json.dumps takes them:    *)
(* str, int, None, list and dict. A dict is the sequence of its items in   *)
(* insertion order, its keys distinct.                                     *)
(***************************************************************************)
PyStr(s) == [k |-> "str", s |-> s]
PyInt(n) == [k |-> "int", n |-> n]
PyNone == [k |-> "None"]
PyList(items) == [k |-> "list", items |-> items]
PyDict(pairs) == [k |-> "dict", pairs |-> pairs]

Item(key, val) == [key |-> key, val |-> val]

EmptyDict == PyDict(<<>>)

\* key in d
DictHas(d, key) == \E n \in 1..Len(d.pairs) : d.pairs[n].key = key

\* d[key], for a key of d
DictGet(d, key) ==
    LET n == CHOOSE n \in 1..Len(d.pairs) : d.pairs[n].key = key
    IN  d.pairs[n].val

\* d.get(key)
DictGetOrNone(d, key) == IF DictHas(d, key) THEN DictGet(d, key) ELSE PyNone

\* d[key] = val: a key of d keeps its place, a new key goes last.
DictSet(d, key, val) ==
    IF DictHas(d, key)
    THEN PyDict([n \in 1..Len(d.pairs) |->
                   IF d.pairs[n].key = key THEN Item(key, val) ELSE d.pairs[n]])
    ELSE PyDict(Append(d.pairs, Item(key, val)))

\* del d[key], for a key of d
DictDel(d, key) ==
    LET IsOther(it) == it.key # key
    IN  PyDict(SelectSeq(d.pairs, IsOther))

DictKeys(d) == {d.pairs[n].key : n \in 1..Len(d.pairs)}

(***************************************************************************)
(* The text of a line, as the sequence of its JSON tokens. A word is a     *)
(* run of characters that is no JSON token.                                *)
(***************************************************************************)
Punct(c) == [t |-> "punct", s |-> c]
StrTok(s) == [t |-> "str", s |-> s]
IntTok(n) == [t |-> "int", n |-> n]
NullTok == [t |-> "null"]
Word(s) == [t |-> "word", s |-> s]
EndOfText == [t |-> "end"]

IsPunct(tok, c) == tok.t = "punct" /\ tok.s = c

RECURSIVE Dumps(_)
RECURSIVE DumpsItems(_)
RECURSIVE DumpsPairs(_)

\* json.dumps(obj)
Dumps(obj) ==
    CASE obj.k = "str" -> <<StrTok(obj.s)>>
      [] obj.k = "int" -> <<IntTok(obj.n)>>
      [] obj.k = "None" -> <<NullTok>>
      [] obj.k = "list" -> <<Punct("[")>> \o DumpsItems(obj.items) \o <<Punct("]")>>
      [] obj.k = "dict" -> <<Punct("{")>> \o DumpsPairs(obj.pairs) \o <<Punct("}")>>

DumpsItems(items) ==
    IF items = <<>> THEN <<>>
    ELSE IF Len(items) = 1 THEN Dumps(items[1])
    ELSE Dumps(items[1]) \o <<Punct(",")>> \o DumpsItems(Tail(items))

DumpsPairs(pairs) ==
    IF pairs = <<>> THEN <<>>
    ELSE LET one == <<StrTok(pairs[1].key), Punct(":")>> \o Dumps(pairs[1].val)
         IN  IF Len(pairs) = 1 THEN one
             ELSE one \o <<Punct(",")>> \o DumpsPairs(Tail(pairs))

\* The decoder's result: a value and the position after it, or no value.
Decoded(val, pos) == [ok |-> TRUE, val |-> val, pos |-> pos]
NotDecoded == [ok |-> FALSE]

TokAt(toks, p) == IF p <= Len(toks) THEN toks[p] ELSE EndOfText

RECURSIVE ScanValue(_, _)
RECURSIVE ScanItems(_, _, _)
RECURSIVE ScanPairs(_, _, _)

\* The JSON decoder: the value that starts at token p of toks.
ScanValue(toks, p) ==
    LET tok == TokAt(toks, p)
    IN  CASE tok.t = "str" -> Decoded(PyStr(tok.s), p + 1)
          [] tok.t = "int" -> Decoded(PyInt(tok.n), p + 1)
          [] tok.t = "null" -> Decoded(PyNone, p + 1)
          [] IsPunct(tok, "[") ->
                IF IsPunct(TokAt(toks, p + 1), "]")
                THEN Decoded(PyList(<<>>), p + 2)
                ELSE ScanItems(toks, p + 1, <<>>)
          [] IsPunct(tok, "{") ->
                IF IsPunct(TokAt(toks, p + 1), "}")
                THEN Decoded(EmptyDict, p + 2)
                ELSE ScanPairs(toks, p + 1, EmptyDict)
          [] OTHER -> NotDecoded

\* The rest of an array whose items so far are acc; a value starts at p.
ScanItems(toks, p, acc) ==
    LET r == ScanValue(toks, p)
    IN  IF ~r.ok THEN NotDecoded
        ELSE IF IsPunct(TokAt(toks, r.pos), "]")
             THEN Decoded(PyList(Append(acc, r.val)), r.pos + 1)
        ELSE IF IsPunct(TokAt(toks, r.pos), ",")
             THEN ScanItems(toks, r.pos + 1, Append(acc, r.val))
        ELSE NotDecoded

\* The rest of an object whose items so far are acc; a key starts at p. A
\* repeated key takes its last value.
ScanPairs(toks, p, acc) ==
    IF TokAt(toks, p).t # "str" \/ ~IsPunct(TokAt(toks, p + 1), ":")
    THEN NotDecoded
    ELSE LET r == ScanValue(toks, p + 2)
         IN  IF ~r.ok THEN NotDecoded
             ELSE IF IsPunct(TokAt(toks, r.pos), "}")
                  THEN Decoded(DictSet(acc, toks[p].s, r.val), r.pos + 1)
             ELSE IF IsPunct(TokAt(toks, r.pos), ",")
                  THEN ScanPairs(toks, r.pos + 1, DictSet(acc, toks[p].s, r.val))
             ELSE NotDecoded

\* json.loads(s): the value of the whole text, or ValueError (NotDecoded).
Loads(line) ==
    LET r == ScanValue(line, 1)
    IN  IF r.ok /\ r.pos = Len(line) + 1 THEN r ELSE NotDecoded

(***************************************************************************)
(* ModelLogger.parse_log_line and ModelLogger.parse_logs.                  *)
(***************************************************************************)
LogType_PLOT == "PLOT"
LogType_METRICS == "METRICS"
LogType_MESSAGE == "MESSAGE"

\* try: return json.loads(log_line) / except ValueError: return {}
parse_log_line(log_line) ==
    IF Loads(log_line).ok THEN Loads(log_line).val ELSE EmptyDict

\* `sub in s` for two str: s has sub as a substring. The strings of the model
\* that have another one as a substring are listed.
Substring(sub, s) ==
    \/ sub = s
    \/ <<sub, s>> \in {<<"time", "time and type">>, <<"type", "time and type">>}

\* `key in obj` is defined for a dict (a key), a list (an item) and a str (a
\* substring); for an int or None it raises TypeError.
InDefined(obj) == obj.k \in {"dict", "list", "str"}

InHolds(key, obj) ==
    CASE obj.k = "dict" -> DictHas(obj, key)
      [] obj.k = "list" -> \E n \in 1..Len(obj.items) : obj.items[n] = PyStr(key)
      [] obj.k = "str" -> Substring(key, obj.s)

\* The record parse_logs appends for a line of each type; log_dict is the
\* decoded line without its 'time' and 'type'.
MessageRecord(log_datetime, log_dict) ==
    PyDict(<<Item("time", log_datetime),
             Item("message", DictGetOrNone(log_dict, "message"))>>)

MetricsRecord(log_datetime, log_dict) ==
    PyDict(<<Item("time", log_datetime)>> \o log_dict.pairs)

PlotRecordWithTime(log_datetime, log_dict) ==
    PyDict(<<Item("time", log_datetime)>> \o log_dict.pairs)
PlotRecord(log_datetime, log_dict) == PyDict(log_dict.pairs)

TypeError(what) == <<"TypeError: ", what>>

AttributeError(what) == <<"AttributeError: ", what>>

(***************************************************************************)
(* ModelLoggerDebugHandler.emit.                                           *)
(***************************************************************************)
\* bool(obj), as `x_axis or 'time'` tests it.
Truthy(obj) ==
    CASE obj.k = "None" -> FALSE
      [] obj.k = "str" -> obj.s # ""
      [] obj.k = "int" -> obj.i # 0
      [] obj.k = "list" -> obj.items # <<>>
      [] obj.k = "dict" -> obj.pairs # <<>>

\* ', '.join(obj) is defined for an iterable of str: a list of str, a str
\* (its characters) or a dict (its keys); for anything else it raises
\* TypeError.
JoinDefined(obj) ==
    CASE obj.k = "list" -> \A n \in 1..Len(obj.items) : obj.items[n].k = "str"
      [] obj.k = "str" -> TRUE
      [] obj.k = "dict" -> TRUE
      [] OTHER -> FALSE

\* ', '.join(obj): the strings joined, in order.
Join(obj) ==
    CASE obj.k = "list" -> [n \in 1..Len(obj.items) |-> obj.items[n].s]
      [] obj.k = "str" -> <<"characters of", obj.s>>
      [] obj.k = "dict" -> [n \in 1..Len(obj.pairs) |-> obj.pairs[n].key]

\* emit raised error and printed nothing.
EmitRaises(err) == [raised |-> err, out |-> <<>>]

\* emit called _print(message) and returned.
EmitPrints(message) == [raised |-> NoError, out |-> <<message>>]

\* emit(record) for a record whose msg is log_line: the error it raises, if
\* any, and what it prints.
emit(log_line) ==
    LET log_dict == parse_log_line(log_line)
    IN  IF log_dict.k # "dict"
        THEN EmitRaises(AttributeError("object has no attribute 'get'"))
        ELSE LET log_type == DictGetOrNone(log_dict, "type")
                 title == DictGetOrNone(log_dict, "title")
                 plot_metrics == DictGetOrNone(log_dict, "metrics")
                 x_axis == DictGetOrNone(log_dict, "x_axis")
             IN  IF log_type = PyStr(LogType_PLOT)
                 THEN IF ~JoinDefined(plot_metrics)
                      THEN EmitRaises(TypeError("can only join an iterable of str"))
                      ELSE EmitPrints(<<"Plot", title, Join(plot_metrics),
                                        IF Truthy(x_axis) THEN x_axis ELSE PyStr("time")>>)
                 ELSE IF log_type = PyStr(LogType_METRICS)
                 THEN EmitPrints(<<"Metric(s) logged", log_dict.pairs>>)
                 ELSE IF log_type = PyStr(LogType_MESSAGE)
                 THEN EmitPrints(<<DictGetOrNone(log_dict, "message")>>)
                 ELSE EmitPrints(<<log_line>>)

\* What is recorded of an emit call.
Handled(log_line) == [line |-> log_line, raised |-> emit(log_line).raised]

\* The handler of the logger named current is given lines, one emit call for
\* each: only the logger of the constructor has the debug handler.
HandledBy(current, lines) ==
    IF current = "debug" THEN [n \in 1..Len(lines) |-> Handled(lines[n])] ELSE <<>>

RECURSIVE PrintedBy(_, _)
PrintedBy(current, lines) ==
    IF current # "debug" \/ lines = <<>>
    THEN <<>>
    ELSE emit(Head(lines)).out \o PrintedBy(current, Tail(lines))

\* No parse_logs call is in progress.
NoParseLogs ==
    /\ log_lines = <<>>
    /\ idx = 1
    /\ messages = <<>>
    /\ metrics = <<>>
    /\ plots = <<>>
    /\ pl_pc = "idle"
    /\ pl_error = NoError
    /\ msg_src = <<>>
    /\ met_src = <<>>
    /\ plot_src = <<>>

\* The loggers a ModelLogger can hold: the one of its constructor, which has
\* the debug handler, and one injected with set_logger.
Loggers == {"debug", "train"}

\* ModelLogger(): the logger of the module, nothing logged yet.
LogInit ==
    /\ logger = "debug"
    /\ delivered = [l \in Loggers |-> <<>>]
    /\ emitted = <<>>
    /\ calls = 0
    /\ last_call = [op |-> "none", msg |-> "", kw |-> EmptyDict, first |-> 0]
    /\ handled = <<>>
    /\ stdout = <<>>

(***************************************************************************)
(* Helpers of the install loop.                                            *)
(***************************************************************************)
\* The for loop runs its body again after iteration n (0-based) unless
\* range(10) is exhausted.
RangeHasNextOffByOne(n) == n + 1 < MaxAttempts + 1
RangeHasNext(n) == n + 1 < MaxAttempts

\* Where the script goes when the loop ran out without a break: the else
\* clause of the for loop raises.
LoopElseProceeds == "run_worker"
LoopElse == "fatal"

\* The install phase is over and it succeeded: lines 38-71 have run and the
\* callbacks are in the hands of run_worker.
Handed == pc \in {"run_worker", "sw_entry", "sw_assign", "sw_start", "sw_blocked"}

(***************************************************************************)
(* The workers of singa_auto.worker, as far as the script uses them:       *)
(* start() blocks until stop() has been invoked, stop() is a signal.       *)
(***************************************************************************)
NewWorker(kind) == [kind |-> kind, starts |-> 0, stops |-> 0, stopped |-> FALSE]

WorkerStop(w) == [w EXCEPT !.stops = @ + 1, !.stopped = TRUE]

WorkerStartReturns(w) == w.stopped

\* An exception out of a worker's start().
WorkerStartError == <<"Exception in worker.start()">>

(***************************************************************************)
(* start_worker's dispatch on the service type.                            *)
(***************************************************************************)
WorkerKindNoElse(t) ==
    IF t = "TRAIN" THEN "TrainWorker"
    ELSE IF t = "INFERENCE" THEN "InferenceWorker"
    ELSE "AdvisorWorker"
WorkerKindSwapped(t) ==
    IF t = "TRAIN" THEN "TrainWorker"
    ELSE IF t = "INFERENCE" THEN "TrainWorker"
    ELSE IF t = "ADVISOR" THEN "AdvisorWorker"
    ELSE "NoWorker"
WorkerKind(t) ==
    IF t = "TRAIN" THEN "TrainWorker"
    ELSE IF t = "INFERENCE" THEN "InferenceWorker"
    ELSE IF t = "ADVISOR" THEN "AdvisorWorker"
    ELSE "NoWorker"

InvalidServiceType(t) == <<"Invalid service type: ", t>>

(***************************************************************************)
(* The install loop.                                                       *)
(***************************************************************************)
\* exit_code = os.system(install_command); a zero exit code breaks out of the
\* loop and the script runs on to run_worker.
OsSystem(exit_code) ==
    /\ pc = "install"
    /\ attempts' = Append(attempts, exit_code)
    /\ pc' = IF exit_code # 0 THEN "sleep" ELSE "run_worker"
    /\ UNCHANGED <<i, slept, worker, workers, svc_type, error, spc, stop_error,
                   start_calls, stop_calls, stop_during>>
    /\ UNCHANGED <<parseVars, logVars>>

\* The time slept so far, after one more time.sleep(3).
SleptAfterNoSleep(s) == s
SleptAfter(s) == s + SleepUnits

\* print(...); time.sleep(3); then the next iteration, or the else clause.
Sleep ==
    /\ pc = "sleep"
    /\ slept' = SleptAfter(slept)
    /\ IF RangeHasNext(i)
          THEN /\ i' = i + 1
               /\ pc' = "install"
          ELSE /\ i' = i
               /\ pc' = LoopElse
    /\ UNCHANGED <<attempts, worker, workers, svc_type, error, spc, stop_error,
                   start_calls, stop_calls, stop_during>>
    /\ UNCHANGED <<parseVars, logVars>>

(***************************************************************************)
(* start_worker, in the main context.                                      *)
(***************************************************************************)
\* run_worker calls start_worker(service_id, service_type, container_id).
StartWorker(service_type) ==
    /\ pc = "run_worker"
    /\ start_calls < MaxStarts
    /\ start_calls' = start_calls + 1
    /\ svc_type' = service_type
    /\ error' = NoError
    /\ stop_during' = FALSE
    /\ pc' = "sw_entry"
    /\ UNCHANGED <<i, attempts, slept, worker, workers, spc, stop_error, stop_calls>>
    /\ UNCHANGED <<parseVars, logVars>>

\* The if/elif chain: the constructor of the worker of the type is called and
\* returns the new worker, or the else branch raises.
Dispatch ==
    /\ pc = "sw_entry"
    /\ IF WorkerKind(svc_type) # "NoWorker"
          THEN /\ workers' = Append(workers, NewWorker(WorkerKind(svc_type)))
               /\ pc' = "sw_assign"
               /\ UNCHANGED <<error, stop_during>>
          ELSE /\ error' = InvalidServiceType(svc_type)
               /\ pc' = "run_worker"
               /\ stop_during' = FALSE
               /\ UNCHANGED workers
    /\ UNCHANGED <<i, attempts, slept, worker, svc_type, spc, stop_error, start_calls,
                   stop_calls>>
    /\ UNCHANGED <<parseVars, logVars>>

\* The worker the global holds after `worker = <the new worker>`: the one just
\* constructed, the last of ws.
Assigned(ws) == Len(ws)

\* worker = ...: the new worker is stored in the global.
AssignWorker ==
    /\ pc = "sw_assign"
    /\ worker' = Assigned(workers)
    /\ pc' = "sw_start"
    /\ UNCHANGED <<i, attempts, slept, workers, svc_type, error, spc, stop_error,
                   start_calls, stop_calls, stop_during>>
    /\ UNCHANGED <<parseVars, logVars>>

\* worker.start() is entered.
WorkerStart ==
    /\ pc = "sw_start"
    /\ workers' = [workers EXCEPT ![worker].starts = @ + 1]
    /\ pc' = "sw_blocked"
    /\ UNCHANGED <<i, attempts, slept, worker, svc_type, error, spc, stop_error,
                   start_calls, stop_calls, stop_during>>
    /\ UNCHANGED <<parseVars, logVars>>

\* worker.start() returns, and start_worker with it.
WorkerStartReturn ==
    /\ pc = "sw_blocked"
    /\ WorkerStartReturns(workers[worker])
    /\ pc' = "run_worker"
    /\ stop_during' = FALSE
    /\ UNCHANGED <<i, attempts, slept, worker, workers, svc_type, error, spc,
                   stop_error, start_calls, stop_calls>>
    /\ UNCHANGED <<parseVars, logVars>>

\* worker.start() raises, and start_worker with it.
WorkerStartRaise ==
    /\ pc = "sw_blocked"
    /\ error' = WorkerStartError
    /\ pc' = "run_worker"
    /\ stop_during' = FALSE
    /\ UNCHANGED <<i, attempts, slept, worker, workers, svc_type, spc, stop_error,
                   start_calls, stop_calls>>
    /\ UNCHANGED <<parseVars, logVars>>

(***************************************************************************)
(* stop_worker, in the second context.                                     *)
(***************************************************************************)
\* The test of stop_worker.
StopTestAlways(w) == TRUE
StopTest(w) == w # None

\* stop_worker is called and tests `worker is not None`.
StopWorker ==
    /\ Handed
    /\ spc = "idle"
    /\ stop_calls < MaxStops
    /\ stop_calls' = stop_calls + 1
    /\ stop_error' = NoError
    /\ spc' = IF StopTest(worker) THEN "call" ELSE "idle"
    /\ stop_during' = (stop_during
                        \/ pc \in {"sw_entry", "sw_assign", "sw_start", "sw_blocked"})
    /\ UNCHANGED <<pc, i, attempts, slept, worker, workers, svc_type, error, start_calls>>
    /\ UNCHANGED <<parseVars, logVars>>

\* The global after worker.stop() returned.
AfterStopCleared(w) == None
AfterStop(w) == w

\* worker.stop(): the global is read again and stop() invoked on what it holds.
StopWorkerStop ==
    /\ spc = "call"
    /\ IF worker = None
          THEN /\ stop_error' = <<"AttributeError: ", "stop">>
               /\ UNCHANGED <<worker, workers>>
          ELSE /\ workers' = [workers EXCEPT ![worker] = WorkerStop(@)]
               /\ worker' = AfterStop(worker)
               /\ UNCHANGED stop_error
    /\ spc' = "idle"
    /\ UNCHANGED <<pc, i, attempts, slept, svc_type, error, start_calls, stop_calls,
                   stop_during>>
    /\ UNCHANGED <<parseVars, logVars>>

(***************************************************************************)
(* The bootstrap script.                                                   *)
(***************************************************************************)
SupInit ==
    /\ pc = "install"
    /\ i = 0
    /\ attempts = <<>>
    /\ slept = 0
    /\ worker = None
    /\ workers = <<>>
    /\ svc_type = "TRAIN"
    /\ error = NoError
    /\ spc = "idle"
    /\ stop_error = NoError
    /\ start_calls = 0
    /\ stop_calls = 0
    /\ stop_during = FALSE

Init ==
    /\ SupInit
    /\ NoParseLogs
    /\ LogInit

Next ==
    \/ \E exit_code \in ExitCodes : OsSystem(exit_code)
    \/ Sleep
    \/ \E service_type \in ServiceTypes : StartWorker(service_type)
    \/ Dispatch
    \/ AssignWorker
    \/ WorkerStart
    \/ WorkerStartReturn
    \/ WorkerStartRaise
    \/ StopWorker
    \/ StopWorkerStop

Spec == Init /\ [][Next]_vars

\* The steps of the code are taken when they can be; the calls of the
\* callbacks are up to their caller.
FairSpec ==
    /\ Spec
    /\ WF_vars(Dispatch)
    /\ WF_vars(AssignWorker)
    /\ WF_vars(WorkerStart)
    /\ WF_vars(WorkerStartReturn)
    /\ WF_vars(StopWorkerStop)

(***************************************************************************)
(* parse_logs, one iteration of its for loop at a time.                    *)
(***************************************************************************)
\* parse_logs raises error in the iteration in progress.
ParseLogsRaise(err) ==
    /\ pl_pc' = "raised"
    /\ pl_error' = err
    /\ UNCHANGED <<log_lines, idx, messages, metrics, plots, msg_src, met_src, plot_src>>

\* The line is skipped: `continue`, or a type that is none of the three.
ParseLogsSkip ==
    /\ idx' = idx + 1
    /\ UNCHANGED <<log_lines, messages, metrics, plots, pl_pc, pl_error,
                   msg_src, met_src, plot_src>>

\* The body of the loop, from `log_datetime = log_dict['time']` on, for a
\* dict that has both keys.
ParseLogsAppend(decoded) ==
    LET log_datetime == DictGet(decoded, "time")
        log_type == DictGet(decoded, "type")
        log_dict == DictDel(DictDel(decoded, "time"), "type")
    IN  IF log_type = PyStr(LogType_MESSAGE)
        THEN /\ messages' = Append(messages, MessageRecord(log_datetime, log_dict))
             /\ msg_src' = Append(msg_src, idx)
             /\ idx' = idx + 1
             /\ UNCHANGED <<log_lines, metrics, plots, pl_pc, pl_error, met_src, plot_src>>
        ELSE IF log_type = PyStr(LogType_METRICS)
        THEN /\ metrics' = Append(metrics, MetricsRecord(log_datetime, log_dict))
             /\ met_src' = Append(met_src, idx)
             /\ idx' = idx + 1
             /\ UNCHANGED <<log_lines, messages, plots, pl_pc, pl_error, msg_src, plot_src>>
        ELSE IF log_type = PyStr(LogType_PLOT)
        THEN /\ plots' = Append(plots, PlotRecord(log_datetime, log_dict))
             /\ plot_src' = Append(plot_src, idx)
             /\ idx' = idx + 1
             /\ UNCHANGED <<log_lines, messages, metrics, pl_pc, pl_error, msg_src, met_src>>
        ELSE ParseLogsSkip

\* One iteration of `for log_line in log_lines`.
ParseLogsIter ==
    /\ pl_pc = "loop"
    /\ idx <= Len(log_lines)
    /\ LET log_dict == parse_log_line(log_lines[idx])
       IN  IF ~InDefined(log_dict)
           THEN ParseLogsRaise(TypeError("argument is not iterable"))
           ELSE IF ~InHolds("time", log_dict) \/ ~InHolds("type", log_dict)
           THEN ParseLogsSkip
           ELSE IF log_dict.k # "dict"
           THEN ParseLogsRaise(TypeError("indices must be integers"))
           ELSE ParseLogsAppend(log_dict)
    /\ UNCHANGED <<supVars, logVars>>

\* return (messages, metrics, plots)
ParseLogsReturn ==
    /\ pl_pc = "loop"
    /\ idx > Len(log_lines)
    /\ pl_pc' = "returned"
    /\ UNCHANGED <<log_lines, idx, messages, metrics, plots, pl_error,
                   msg_src, met_src, plot_src>>
    /\ UNCHANGED <<supVars, logVars>>

(***************************************************************************)
(* The lines parse_logs is given in the model.                             *)
(***************************************************************************)
\* Lines in log_lines, at most.
MaxLines == 3

MessageLine(time, text) ==
    Dumps(PyDict(<<Item("message", PyStr(text)), Item("type", PyStr("MESSAGE")),
                   Item("time", PyStr(time))>>))

SampleLines ==
    { \* text that is not JSON
      <<Word("Epoch"), IntTok(1), Word("done")>>,
      <<Punct("{"), StrTok("type"), Punct(":"), StrTok("MESSAGE"), Punct(",")>>,
      \* JSON that is not an object
      Dumps(PyInt(5)),
      Dumps(PyNone),
      Dumps(PyStr("hello")),
      Dumps(PyStr("time and type")),
      Dumps(PyList(<<PyStr("time"), PyStr("type")>>)),
      \* objects without 'type' or without 'time'
      Dumps(PyDict(<<Item("message", PyStr("m")), Item("time", PyStr("T1"))>>)),
      Dumps(PyDict(<<Item("loss", PyInt(1)), Item("type", PyStr("METRICS"))>>)),
      \* an object of an unrecognized type
      Dumps(PyDict(<<Item("type", PyStr("OTHER")), Item("time", PyStr("T1"))>>)),
      \* lines of the three types
      MessageLine("T1", "m1"),
      MessageLine("T2", "m2"),
      \* a MESSAGE line with no 'message' and with another field
      Dumps(PyDict(<<Item("level", PyInt(1)), Item("type", PyStr("MESSAGE")),
                     Item("time", PyStr("T1"))>>)),
      Dumps(PyDict(<<Item("loss", PyInt(1)), Item("epoch", PyInt(2)),
                     Item("type", PyStr("METRICS")), Item("time", PyStr("T1"))>>)),
      Dumps(PyDict(<<Item("title", PyStr("Loss")),
                     Item("metrics", PyList(<<PyStr("loss")>>)),
                     Item("x_axis", PyNone),
                     Item("type", PyStr("PLOT")), Item("time", PyStr("T2"))>>)) }

SeqsUpTo(S, n) == UNION {[1..m -> S] : m \in 0..n}

\* parse_logs(log_lines) is called.
InitParse ==
    /\ SupInit
    /\ LogInit
    /\ log_lines \in SeqsUpTo(SampleLines, MaxLines)
    /\ idx = 1
    /\ messages = <<>>
    /\ metrics = <<>>
    /\ plots = <<>>
    /\ pl_pc = "loop"
    /\ pl_error = NoError
    /\ msg_src = <<>>
    /\ met_src = <<>>
    /\ plot_src = <<>>

NextParse ==
    \/ ParseLogsIter
    \/ ParseLogsReturn

SpecParse == InitParse /\ [][NextParse]_vars

(***************************************************************************)
(* The ModelLogger: log, define_plot, set_logger and _log.                 *)
(***************************************************************************)
\* Calls of log and define_plot in one run.
MaxCalls == 2

\* What datetime.now().strftime(MODEL_LOG_DATETIME_FORMAT) can give.
Times == {"2019-01-01T00:00:00", "2019-01-01T00:00:01"}

\* _log's line: the dict it is given, with 'type' and 'time' set, dumped.
log_line_setdefault(log_type, log_dict, time) ==
    Dumps((IF DictHas(log_dict, "type") /\ DictHas(log_dict, "time")
           THEN log_dict
           ELSE IF DictHas(log_dict, "type")
           THEN DictSet(log_dict, "time", PyStr(time))
           ELSE IF DictHas(log_dict, "time")
           THEN DictSet(log_dict, "type", PyStr(log_type))
           ELSE DictSet(DictSet(log_dict, "type", PyStr(log_type)), "time", PyStr(time))))
log_line(log_type, log_dict, time) ==
    Dumps(DictSet(DictSet(log_dict, "type", PyStr(log_type)), "time", PyStr(time)))

\* One _log call: its arguments and the time it reads.
LogCall(log_type, log_dict, time) ==
    [log_type |-> log_type, log_dict |-> log_dict, time |-> time]

\* What is recorded of a _log call: its arguments, its line, the logger the
\* line went to, and the dict parse_log_line makes of the line.
Emitted(c) ==
    [log_type |-> c.log_type,
     log_dict |-> c.log_dict,
     line |-> log_line(c.log_type, c.log_dict, c.time),
     logger |-> logger,
     decoded |-> parse_log_line(log_line(c.log_type, c.log_dict, c.time))]

\* The logger _log hands its line to: self._logger, read at the call.
TargetOfConstructor(current) == "debug"
Target(current) == current

\* The _log calls cs, in order: self._logger.info(log_line) for each.
DoLog(cs) ==
    LET lines == [n \in 1..Len(cs) |->
                    log_line(cs[n].log_type, cs[n].log_dict, cs[n].time)]
    IN  /\ delivered' = [delivered EXCEPT ![Target(logger)] = @ \o lines]
        /\ emitted' = emitted \o [n \in 1..Len(cs) |-> Emitted(cs[n])]
        /\ handled' = handled \o HandledBy(Target(logger), lines)
        /\ stdout' = stdout \o PrintedBy(Target(logger), lines)

\* The _log calls of log(msg, **kw): one for the message if msg, then one for
\* the metrics if kw.
LogCallsElif(msg, kw, t1, t2) ==
    IF msg # ""
    THEN <<LogCall(LogType_MESSAGE, PyDict(<<Item("message", PyStr(msg))>>), t1)>>
    ELSE IF kw # EmptyDict
    THEN <<LogCall(LogType_METRICS, kw, t2)>>
    ELSE <<>>
LogCalls(msg, kw, t1, t2) ==
    (IF msg # ""
     THEN <<LogCall(LogType_MESSAGE, PyDict(<<Item("message", PyStr(msg))>>), t1)>>
     ELSE <<>>)
    \o (IF kw # EmptyDict
        THEN <<LogCall(LogType_METRICS, kw, t2)>>
        ELSE <<>>)

\* A call op of the logger, with its arguments, is made now.
Called(op, msg, kw) ==
    /\ calls < MaxCalls
    /\ calls' = calls + 1
    /\ last_call' = [op |-> op, msg |-> msg, kw |-> kw, first |-> Len(emitted)]

\* log(msg, **kw)
Log(msg, kw, t1, t2) ==
    /\ Called("log", msg, kw)
    /\ DoLog(LogCalls(msg, kw, t1, t2))
    /\ UNCHANGED logger
    /\ UNCHANGED <<supVars, parseVars>>

\* log_loss(loss, epoch): self.log(loss=loss, epoch=epoch)
LogLoss(loss, epoch, t) ==
    /\ Called("log_loss", "", PyDict(<<Item("loss", loss), Item("epoch", epoch)>>))
    /\ DoLog(LogCalls("", PyDict(<<Item("loss", loss), Item("epoch", epoch)>>), t, t))
    /\ UNCHANGED logger
    /\ UNCHANGED <<supVars, parseVars>>

\* define_plot(title, metrics, x_axis): a PLOT line.
DefinePlot(title, plot_metrics, x_axis, t) ==
    /\ Called("define_plot", "",
              PyDict(<<Item("title", title), Item("metrics", plot_metrics),
                       Item("x_axis", x_axis)>>))
    /\ DoLog(<<LogCall(LogType_PLOT,
                       PyDict(<<Item("title", title), Item("metrics", plot_metrics),
                                Item("x_axis", x_axis)>>), t)>>)
    /\ UNCHANGED logger
    /\ UNCHANGED <<supVars, parseVars>>

\* set_logger(logger)
SetLogger(l) ==
    /\ logger' = l
    /\ UNCHANGED <<delivered, emitted, calls, last_call, handled, stdout>>
    /\ UNCHANGED <<supVars, parseVars>>

\* The arguments of the calls in the model.
Msgs == {"", "Starting model training..."}

MetricsArgs ==
    { EmptyDict,
      PyDict(<<Item("loss", PyInt(1)), Item("epoch", PyInt(2))>>),
      PyDict(<<Item("time", PyInt(5))>>),
      PyDict(<<Item("message", PyInt(3)), Item("type", PyInt(7))>>) }

Titles == {PyStr("Loss Over Epochs")}

PlotMetrics == {PyList(<<PyStr("loss")>>), PyList(<<PyStr("a"), PyStr("b")>>)}

XAxes == {PyNone, PyStr("epoch")}

Losses == {PyInt(1)}

Epochs == {PyInt(2), PyInt(3)}

InitLog ==
    /\ SupInit
    /\ NoParseLogs
    /\ LogInit

NextLog ==
    \/ \E msg \in Msgs, kw \in MetricsArgs, t1, t2 \in Times : Log(msg, kw, t1, t2)
    \/ \E loss \in Losses, epoch \in Epochs, t \in Times : LogLoss(loss, epoch, t)
    \/ \E title \in Titles, plot_metrics \in PlotMetrics, x_axis \in XAxes, t \in Times :
          DefinePlot(title, plot_metrics, x_axis, t)
    \/ \E l \in Loggers : SetLogger(l)

SpecLog == InitLog /\ [][NextLog]_vars

(***************************************************************************)
(* The debug handler, given records by any user of the logger of the       *)
(* module.                                                                 *)
(***************************************************************************)
\* Records given to the handler in one run.
MaxRecords == 2

\* PLOT lines whose 'metrics' is missing or is no list of names.
PlotLinesWithoutNames ==
    { Dumps(PyDict(<<Item("title", PyStr("Loss")), Item("type", PyStr("PLOT")),
                     Item("time", PyStr("T1"))>>)),
      Dumps(PyDict(<<Item("title", PyStr("Loss")),
                     Item("metrics", PyList(<<PyInt(1)>>)),
                     Item("type", PyStr("PLOT")), Item("time", PyStr("T1"))>>)) }

EmitLines == SampleLines \cup PlotLinesWithoutNames

\* handler.emit(record), with record.msg = msg
DebugEmit(msg) ==
    /\ Len(handled) < MaxRecords
    /\ handled' = Append(handled, Handled(msg))
    /\ stdout' = stdout \o emit(msg).out
    /\ UNCHANGED <<logger, delivered, emitted, calls, last_call>>
    /\ UNCHANGED <<supVars, parseVars>>

NextEmit == \E msg \in EmitLines : DebugEmit(msg)

SpecEmit == InitLog /\ [][NextEmit]_vars

(***************************************************************************)
(* The lines of a ModelLogger, decoded: the model logs with the logger it  *)
(* was given, then parse_logs is called with the lines that logger got.    *)
(***************************************************************************)
\* parse_logs(lines) is called.
ParseLogsCall(lines) ==
    /\ pl_pc = "idle"
    /\ log_lines' = lines
    /\ pl_pc' = "loop"
    /\ UNCHANGED <<idx, messages, metrics, plots, pl_error, msg_src, met_src, plot_src>>
    /\ UNCHANGED <<supVars, logVars>>

NextDecode ==
    \/ /\ pl_pc = "idle"
       /\ \E msg \in Msgs, kw \in MetricsArgs, t1, t2 \in Times : Log(msg, kw, t1, t2)
    \/ /\ pl_pc = "idle"
       /\ \E loss \in Losses, epoch \in Epochs, t \in Times : LogLoss(loss, epoch, t)
    \/ /\ pl_pc = "idle"
       /\ \E title \in Titles, plot_metrics \in PlotMetrics, x_axis \in XAxes, t \in Times :
             DefinePlot(title, plot_metrics, x_axis, t)
    \/ ParseLogsCall(delivered[logger])
    \/ ParseLogsIter
    \/ ParseLogsReturn

SpecDecode == InitLog /\ [][NextDecode]_vars

(***************************************************************************)
(* Claims about the bootstrap script.                                      *)
(***************************************************************************)
AllFailed(n) == \A j \in 1..n : attempts[j] # 0

\* C1: the install loop makes at most 10 attempts; no attempt follows a
\* successful one; the script has reached the worker phase exactly when the
\* last attempt returned 0 (so a success at attempt k means exactly k
\* attempts); after 10 failing attempts no more is made and the script raises.
C1_InstallRetryCount ==
    /\ Len(attempts) <= 10
    /\ AllFailed(Len(attempts) - 1)
    /\ Handed <=> (Len(attempts) > 0 /\ attempts[Len(attempts)] = 0)
    /\ pc = "fatal" => (Len(attempts) = 10 /\ AllFailed(10))
    /\ (Len(attempts) = 10 /\ AllFailed(10)) => pc \in {"sleep", "fatal"}

\* Nine failing attempts, a successful tenth, and the script went on.
C1_Witness ==
    /\ pc = "run_worker"
    /\ Len(attempts) = 10
    /\ AllFailed(9)
    /\ attempts[10] = 0

\* C2: the callbacks are handed over, called, and a worker is constructed only
\* after an install attempt returned 0; in the fatal state no callback was
\* ever called and no worker constructed.
C2_NoWorkerWithoutInstall ==
    /\ (Handed \/ start_calls > 0 \/ stop_calls > 0 \/ workers # <<>>
          \/ worker # None \/ spc # "idle")
         => \E j \in 1..Len(attempts) : attempts[j] = 0
    /\ pc = "fatal" =>
         /\ AllFailed(Len(attempts))
         /\ start_calls = 0 /\ stop_calls = 0
         /\ workers = <<>> /\ worker = None /\ spc = "idle"

\* A worker was constructed after an install that failed before it succeeded.
C2_Witness ==
    /\ Len(workers) > 0
    /\ Len(attempts) > 1
    /\ attempts[1] # 0

\* C3, for the first start_worker() call of the process: a stop_worker() call
\* made after start_worker() was entered makes that start_worker() call return.
C3_StopUnblocksStart == (start_calls = 1 /\ stop_during) ~> (pc = "run_worker")

\* C4: the dispatch of an unrecognized service type raises an exception that
\* names the type, constructs and starts no worker and leaves the global alone.
C4_UnrecognizedType ==
    [][(pc = "sw_entry" /\ pc' # "sw_entry"
          /\ svc_type \notin {"TRAIN", "INFERENCE", "ADVISOR"})
         => /\ error' = <<"Invalid service type: ", svc_type>>
            /\ pc' = "run_worker"
            /\ workers' = workers
            /\ worker' = worker]_vars

\* A call with an unrecognized type failed while an earlier worker was held.
C4_Witness ==
    /\ error = <<"Invalid service type: ", "BOGUS">>
    /\ pc = "run_worker"
    /\ worker # None

\* C5: a stop_worker() call made while `worker` is None returns at once,
\* without an error, without a stop() delivered and with `worker` still None.
C5_StopBeforeStart ==
    [][(stop_calls' = stop_calls + 1 /\ worker = None)
         => /\ spc' = "idle"
            /\ stop_error' = NoError
            /\ worker' = None
            /\ workers' = workers]_vars

\* Two stop_worker() calls have returned and there is still no worker.
C5_Witness ==
    /\ stop_calls >= 2
    /\ spc = "idle"
    /\ worker = None
    /\ workers = <<>>

C7_AtMostOneWorker == Len(workers) <= 1

\* The install attempts so far that returned a non-zero exit code.
Failing == Cardinality({j \in 1..Len(attempts) : attempts[j] # 0})

\* C16: the time slept is 3 units for each failing attempt, the last one's
\* sleep being due exactly while the script is about to sleep; so every failing
\* attempt is followed by one sleep of 3 before anything else, a successful one
\* by none, and one sleep lies between two attempts.
C16_SleepAfterFailure ==
    /\ slept = 3 * (Failing - (IF pc = "sleep" THEN 1 ELSE 0))
    /\ pc = "sleep" => attempts[Len(attempts)] # 0
    /\ (pc = "install" /\ attempts # <<>>) => attempts[Len(attempts)] # 0

\* Two failing attempts and a successful third: two sleeps.
C16_Witness ==
    /\ pc = "run_worker"
    /\ Len(attempts) = 3
    /\ slept = 6

\* The worker class the claim gives for a recognized service type.
ClaimedKind(t) ==
    CASE t = "TRAIN" -> "TrainWorker"
      [] t = "INFERENCE" -> "InferenceWorker"
      [] t = "ADVISOR" -> "AdvisorWorker"

\* C17: start_worker with a recognized type constructs one worker, of the
\* class of the type, stores it in the global before its start() is called, and
\* calls start() once, on that worker; no other step constructs or starts one.
C17_DispatchByType ==
    [][/\ (pc = "sw_entry" /\ pc' # "sw_entry" /\ svc_type \in {"TRAIN", "INFERENCE", "ADVISOR"})
           => /\ Len(workers') = Len(workers) + 1
              /\ SubSeq(workers', 1, Len(workers)) = workers
              /\ workers'[Len(workers')].kind = ClaimedKind(svc_type)
              /\ workers'[Len(workers')].starts = 0
              /\ pc' = "sw_assign"
       /\ (pc = "sw_assign" /\ pc' # "sw_assign")
           => /\ worker' = Len(workers)
              /\ workers' = workers
              /\ pc' = "sw_start"
       /\ (pc = "sw_start" /\ pc' # "sw_start")
           => /\ worker' = worker
              /\ workers[worker].starts = 0
              /\ workers' = [workers EXCEPT ![worker].starts = 1]
              /\ pc' = "sw_blocked"
       /\ pc # "sw_entry" => Len(workers') = Len(workers)
       /\ pc # "sw_start" =>
              \A w \in 1..Len(workers) : workers'[w].starts = workers[w].starts]_vars

\* An InferenceWorker is held by the global and inside its start().
C17_Witness ==
    /\ pc = "sw_blocked"
    /\ workers[worker].kind = "InferenceWorker"
    /\ workers[worker].starts = 1

\* C19: the global `worker`, once assigned, is never None again, and every
\* stop_worker() call made after a worker was constructed invokes stop() on the
\* most recently constructed worker.
C19_WorkerNeverCleared ==
    [][/\ worker # None => worker' # None
       /\ (stop_calls' = stop_calls + 1 /\ workers # <<>>) => spc' = "call"
       /\ (spc = "call" /\ spc' = "idle")
           => workers'[Len(workers)].stops = workers[Len(workers)].stops + 1]_vars

(***************************************************************************)
(* Claims about parse_log_line and parse_logs.                             *)
(***************************************************************************)
\* The line decodes to an object that has both 'type' and 'time'.
WellFormed(line) ==
    /\ Loads(line).ok
    /\ Loads(line).val.k = "dict"
    /\ DictHas(Loads(line).val, "type")
    /\ DictHas(Loads(line).val, "time")

\* The indices, in increasing order, of the well-formed lines of this type.
LinesOfType(log_type) ==
    LET Is(n) == /\ WellFormed(log_lines[n])
                 /\ DictGet(Loads(log_lines[n]).val, "type") = PyStr(log_type)
    IN  SelectSeq([n \in 1..Len(log_lines) |-> n], Is)

SeqRange(q) == {q[n] : n \in 1..Len(q)}

\* C9: parse_logs never raises, whatever the lines are, and a line that is
\* not a well-formed record contributes to none of the three outputs.
C9_DecodingNeverRaises ==
    /\ pl_pc # "raised"
    /\ \A n \in SeqRange(msg_src) \cup SeqRange(met_src) \cup SeqRange(plot_src) :
          WellFormed(log_lines[n])

\* C10: for every list of lines parse_logs returns, and each output holds one
\* record for each well-formed line of its type and no other, in the order of
\* the lines.
C10_FilterAndOrder ==
    pl_pc \in {"returned", "raised"} =>
        /\ pl_pc = "returned"
        /\ msg_src = LinesOfType("MESSAGE") /\ Len(messages) = Len(msg_src)
        /\ met_src = LinesOfType("METRICS") /\ Len(metrics) = Len(met_src)
        /\ plot_src = LinesOfType("PLOT") /\ Len(plots) = Len(plot_src)

\* The record has exactly the keys of keys, each once, and for each of them
\* the value the dict decoded from the line has for it.
HasExactly(record, keys, line) ==
    /\ DictKeys(record) = keys
    /\ Len(record.pairs) = Cardinality(keys)
    /\ \A key \in keys : DictGet(record, key) = DictGet(parse_log_line(line), key)

\* C18: a metrics record holds the 'time' of its line and every other field
\* of the line but 'type', all in one dict; a plot record holds the fields of
\* its line other than 'time' and 'type' and nothing else; a message record
\* holds 'time' and 'message' and nothing else, with the values of the line
\* (None for a 'message' the line has not).
C18_RecordShapes ==
    /\ \A n \in 1..Len(metrics) :
          HasExactly(metrics[n],
                     DictKeys(parse_log_line(log_lines[met_src[n]])) \ {"type"},
                     log_lines[met_src[n]])
    /\ \A n \in 1..Len(plots) :
          HasExactly(plots[n],
                     DictKeys(parse_log_line(log_lines[plot_src[n]])) \ {"type", "time"},
                     log_lines[plot_src[n]])
    /\ \A n \in 1..Len(messages) :
          /\ DictKeys(messages[n]) = {"time", "message"}
          /\ Len(messages[n].pairs) = 2
          /\ DictGet(messages[n], "time")
                = DictGet(parse_log_line(log_lines[msg_src[n]]), "time")
          /\ DictGet(messages[n], "message")
                = DictGetOrNone(parse_log_line(log_lines[msg_src[n]]), "message")

C18_Witness ==
    /\ pl_pc = "returned"
    /\ Len(metrics) = 1 /\ Len(plots) = 1 /\ Len(messages) = 1
    /\ DictGet(messages[1], "message") = PyNone

(***************************************************************************)
(* Claims about the ModelLogger.                                           *)
(***************************************************************************)
\* The dict decoded from the line has every key of the dict the call was
\* given, with its value.
RoundTrips(e) ==
    /\ e.decoded.k = "dict"
    /\ \A key \in DictKeys(e.log_dict) :
          /\ DictHas(e.decoded, key)
          /\ DictGet(e.decoded, key) = DictGet(e.log_dict, key)

\* C8: parse_log_line applied to the line _log produced gives back the
\* message, every metric with its value, or the title, metrics and x_axis the
\* call was given.
C8_RoundTrip == \A n \in 1..Len(emitted) : RoundTrips(emitted[n])

\* The 'type' fields of the lines the last call emitted, in order.
TypesOfLastCall ==
    [n \in 1..(Len(emitted) - last_call.first) |->
        DictGetOrNone(emitted[last_call.first + n].decoded, "type")]

\* The dicts decoded from the lines the last call emitted whose 'type' is t.
RecordsOfLastCall(t) ==
    {emitted[n].decoded : n \in {m \in (last_call.first + 1)..Len(emitted) :
        DictGetOrNone(emitted[m].decoded, "type") = PyStr(t)}}

\* C12: a log call emits a MESSAGE record exactly when msg is non-empty and a
\* METRICS record exactly when metrics is non-empty, each independently of the
\* other, the MESSAGE record first; the METRICS record holds every metric that
\* is named neither 'type' nor 'time' with its value, and log_loss emits one
\* METRICS record with 'loss' and 'epoch' and no MESSAGE record.
C12_RecordsPerLogCall ==
    /\ last_call.op \in {"log", "log_loss"} =>
          /\ TypesOfLastCall =
                (IF last_call.msg # "" THEN <<PyStr("MESSAGE")>> ELSE <<>>)
                \o (IF last_call.kw # EmptyDict THEN <<PyStr("METRICS")>> ELSE <<>>)
          /\ \A d \in RecordsOfLastCall("MESSAGE") :
                DictGetOrNone(d, "message") = PyStr(last_call.msg)
          /\ \A d \in RecordsOfLastCall("METRICS") :
                \A key \in DictKeys(last_call.kw) \ {"type", "time"} :
                    DictHas(d, key) /\ DictGet(d, key) = DictGet(last_call.kw, key)
    /\ last_call.op = "log_loss" =>
          /\ Len(emitted) = last_call.first + 1
          /\ \A d \in RecordsOfLastCall("METRICS") :
                DictHas(d, "loss") /\ DictHas(d, "epoch")

C12_Witness ==
    /\ last_call.op = "log" /\ last_call.msg # "" /\ last_call.kw # EmptyDict
    /\ Len(emitted) = last_call.first + 2
    /\ \E n \in 1..last_call.first : emitted[n].log_dict = PyDict(<<Item("loss", PyInt(1)), Item("epoch", PyInt(2))>>)

\* The lines of the _log calls of after that were not yet made in before.
NewLines(before, after) ==
    [n \in 1..(Len(after) - Len(before)) |-> after[Len(before) + n].line]

\* C13: every line a call emits is handed, once and within the call, to the
\* logger that was current when the call was made and to no other; set_logger
\* hands no line to any logger and takes none away, and after it the new
\* logger is the current one.
C13_SinkRouting ==
    [][/\ delivered'[logger] = delivered[logger] \o NewLines(emitted, emitted')
       /\ \A l \in Loggers \ {logger} : delivered'[l] = delivered[l]
       /\ logger' # logger => Len(emitted') = Len(emitted)
       /\ calls' = calls => Len(emitted') = Len(emitted)]_vars

C13_Witness ==
    /\ logger = "train"
    /\ Len(delivered["debug"]) = 2
    /\ Len(delivered["train"]) = 1
    /\ emitted[2].logger = "debug" /\ emitted[3].logger = "train"

\* The lines parse_logs put in the output of log_type, by their positions.
SrcOf(log_type) ==
    CASE log_type = LogType_MESSAGE -> msg_src
      [] log_type = LogType_METRICS -> met_src
      [] log_type = LogType_PLOT -> plot_src

\* C15: every line of a log, log_loss or define_plot call has a 'type' that
\* is the category of the call and a 'time', also when a metric is named
\* 'type' or 'time'; parse_logs applied to the lines does not raise and puts
\* each line in the output of its category, so that no line is dropped.
C15_EmittedLinesAccepted ==
    /\ \A n \in 1..Len(emitted) :
          /\ DictGetOrNone(emitted[n].decoded, "type") = PyStr(emitted[n].log_type)
          /\ DictHas(emitted[n].decoded, "time")
    /\ pl_pc # "raised"
    /\ pl_pc = "returned" =>
          /\ Len(log_lines) = Len(emitted)
          /\ \A n \in 1..Len(log_lines) :
                /\ log_lines[n] = emitted[n].line
                /\ n \in SeqRange(SrcOf(emitted[n].log_type))
          /\ Len(messages) + Len(metrics) + Len(plots) = Len(log_lines)

C15_Witness ==
    /\ pl_pc = "returned"
    /\ Len(log_lines) = 3
    /\ plots # <<>>
    /\ \E n \in 1..Len(emitted) :
          emitted[n].log_type = LogType_METRICS /\ DictHas(emitted[n].log_dict, "type")

\* C11: the plot record parse_logs gives for a define_plot call made without
\* x_axis has "time" as its 'x_axis'.
C11_DefaultXAxis ==
    pl_pc = "returned" =>
        \A n \in 1..Len(plots) :
            DictGet(emitted[plot_src[n]].log_dict, "x_axis") = PyNone
                => DictGetOrNone(plots[n], "x_axis") = PyStr("time")

\* C14: emit returns without raising for every record it is given, whatever
\* its line, and prints one line for it; the line of a record that does not
\* decode is printed as it is.
C14_DebugSinkNeverFails ==
    /\ \A n \in 1..Len(handled) : handled[n].raised = NoError
    /\ Len(stdout) = Len(handled)
    /\ \A n \in 1..Len(handled) :
          (~Loads(handled[n].line).ok /\ n <= Len(stdout))
              => stdout[n] = <<handled[n].line>>

====
